---- MODULE Spec2Model ----
(***************************************************************************)
(* Model of pre_commit_maven_nyx/maven_nyx_check.py: the pre-commit gate    *)
(* that compares the Maven manifest version with the Nyx release version    *)
(* and checks the Liquibase migration file pair on protected branches.      *)
(*                                                                          *)
(* Strings are sequences of one-character strings, so that trimming,        *)
(* formatting and glob matching are computed and not assumed.               *)
(***************************************************************************)
EXTENDS Integers, Sequences, FiniteSets, TLC

VARIABLES
    \* Branch Matcher harness: matches_protected_branch(mBranch, P), the list P
    \* consumed one pattern at a time as any() consumes its generator; mPat is
    \* the pattern that matched, mRef and mRefB what the reference semantics
    \* say of the patterns consumed so far.
    mBranch, mPat, mIdx, mResult, mRef, mRefB, mPc,
    \* Harness of one reader or validator: its input, its result, its position.
    uIn, uOut, uPc,
    \* The environment of a run of main(): the config file, the files the
    \* checks read, and what the two branch queries answered.
    cfgFile, fs, git1, git2,
    \* main(): its position, its locals, its log, its exit status, and how
    \* often each resource was read.
    pc, config, current_branch, decided_branch, protected_branches,
    nyx_file, pom_file, lb_dir, check_maven, check_liquibase,
    nyx_version, pom_version, log, exitCode, exitHow, reads

matchVars == <<mBranch, mPat, mIdx, mResult, mRef, mRefB, mPc>>

unitVars == <<uIn, uOut, uPc>>

envVars == <<cfgFile, fs>>

mainVars == <<git1, git2, pc, config, current_branch, decided_branch,
              protected_branches, nyx_file, pom_file, lb_dir, check_maven,
              check_liquibase, nyx_version, pom_version, log, exitCode, exitHow,
              reads>>

vars == <<matchVars, unitVars, envVars, mainVars>>

\* ------------------------------------------------------------------ bounds
MaxPatLen == 3
MaxBranchLen == 3
MaxPatterns == 2
MaxNum == 10
MaxChildren == 2

\* ----------------------------------------------------------------- strings
SeqsUpTo(S, n) == UNION {[1..k -> S] : k \in 0..n}

SetMin(S) == CHOOSE x \in S : \A y \in S : x <= y

Whitespace == {" ", "\n", "\t"}

RECURSIVE LStrip(_)
LStrip(s) == IF s # <<>> /\ Head(s) \in Whitespace THEN LStrip(Tail(s)) ELSE s

RECURSIVE RStrip(_)
RStrip(s) ==
    IF s # <<>> /\ s[Len(s)] \in Whitespace
    THEN RStrip(SubSeq(s, 1, Len(s) - 1)) ELSE s

\* str.strip()
Strip(s) == RStrip(LStrip(s))

Digits == <<"0", "1", "2", "3", "4", "5", "6", "7", "8", "9">>

\* str() of a non-negative int, as an f-string formats it.
RECURSIVE IntToStr(_)
IntToStr(n) ==
    IF n < 10 THEN <<Digits[n + 1]>>
    ELSE IntToStr(n \div 10) \o <<Digits[(n % 10) + 1]>>

RECURSIVE ConcatAll(_)
ConcatAll(ss) == IF ss = <<>> THEN <<>> ELSE Head(ss) \o ConcatAll(Tail(ss))

\* ----------------------------------------------- values json.loads returns
JStr(s)  == [ty |-> "str",  s |-> s,    n |-> 0, b |-> FALSE, l |-> <<>>]
JInt(n)  == [ty |-> "int",  s |-> <<>>, n |-> n, b |-> FALSE, l |-> <<>>]
JBool(b) == [ty |-> "bool", s |-> <<>>, n |-> 0, b |-> b,     l |-> <<>>]
JNull    == [ty |-> "null", s |-> <<>>, n |-> 0, b |-> FALSE, l |-> <<>>]
JList(l) == [ty |-> "list", s |-> <<>>, n |-> 0, b |-> FALSE, l |-> l]

\* A dict is a function from the keys it holds; EmptyDict is {}.
EmptyDict == [k \in {} |-> JNull]

Entry(k, choices) == {EmptyDict} \cup {k :> v : v \in choices}

\* dict.get(k): None when the key is missing.
DictGet(d, k) == IF k \in DOMAIN d THEN d[k] ELSE JNull

\* dict.get(k, default)
DictGetDefault(d, k, default) == IF k \in DOMAIN d THEN d[k] ELSE default

\* A plausible slip: "is None" instead of truthiness.
TruthyNotNone(j) == j.ty # "null"

\* bool(x), as "not x" evaluates it.
Truthy(j) ==
    CASE j.ty = "str"  -> j.s # <<>>
      [] j.ty = "int"  -> j.n # 0
      [] j.ty = "bool" -> j.b
      [] j.ty = "list" -> j.l # <<>>
      [] OTHER         -> FALSE

\* str(x), as an f-string formats a scalar.
PyStr(j) ==
    CASE j.ty = "str"  -> j.s
      [] j.ty = "int"  -> IntToStr(j.n)
      [] j.ty = "bool" -> IF j.b THEN <<"T", "r", "u", "e">>
                                 ELSE <<"F", "a", "l", "s", "e">>
      [] OTHER         -> <<"N", "o", "n", "e">>

\* What a function that may call sys.exit(1) hands back: ok with a value, or
\* the exit.
Ret(v)  == [ok |-> TRUE,  v |-> v]
Exit1   == [ok |-> FALSE, v |-> <<>>]

\* ------------------------------------------------- fnmatch.fnmatchcase
\* One element of the regular expression fnmatch.translate builds: a star,
\* '.', an escaped literal or a character class.
Tok(t, neg, cs) == [t |-> t, neg |-> neg, cs |-> cs]

\* Index of the ']' closing a bracket expression opened just before position
\* i of pat, or 0 when the '[' is not closed (translate's scan over j).
CloseBracket(pat, i) ==
    LET n  == Len(pat)
        j0 == IF i <= n /\ pat[i] = "!" THEN i + 1 ELSE i
        j1 == IF j0 <= n /\ pat[j0] = "]" THEN j0 + 1 ELSE j0
        c  == {j \in j1..n : pat[j] = "]"}
    IN  IF c = {} THEN 0 ELSE SetMin(c)

\* The class token for the text between '[' and its closing ']'.
ClassTok(stuff) ==
    IF stuff[1] = "!"
    THEN Tok("set", TRUE, {stuff[k] : k \in 2..Len(stuff)})
    ELSE Tok("set", FALSE, {stuff[k] : k \in 1..Len(stuff)})

RECURSIVE TranslateFrom(_, _, _)
TranslateFrom(pat, i, res) ==
    IF i > Len(pat) THEN res
    ELSE LET c == pat[i] IN
      CASE c = "*" ->
             IF res = <<>> \/ res[Len(res)].t # "star"
             THEN TranslateFrom(pat, i + 1, Append(res, Tok("star", FALSE, {})))
             ELSE TranslateFrom(pat, i + 1, res)
        [] c = "?" -> TranslateFrom(pat, i + 1, Append(res, Tok("any", FALSE, {})))
        [] c = "[" ->
             LET j == CloseBracket(pat, i + 1) IN
             IF j = 0
             THEN TranslateFrom(pat, i + 1, Append(res, Tok("lit", FALSE, {"["})))
             ELSE TranslateFrom(pat, j + 1,
                                Append(res, ClassTok(SubSeq(pat, i + 1, j - 1))))
        [] OTHER -> TranslateFrom(pat, i + 1, Append(res, Tok("lit", FALSE, {c})))

Translate(pat) == TranslateFrom(pat, 1, <<>>)

TokMatch(tok, ch) ==
    IF tok.t = "any" THEN TRUE ELSE (ch \in tok.cs) # tok.neg

\* The fixed pieces toks[a..b] match name at positions p .. p+(b-a).
FixedAt(toks, a, b, name, p) ==
    /\ p + (b - a) <= Len(name)
    /\ \A k \in a..b : TokMatch(toks[k], name[p + (k - a)])

\* Last index of the run of non-star tokens starting at a (a-1 when empty).
FixedEnd(toks, a) ==
    LET stars == {k \in a..Len(toks) : toks[k].t = "star"}
    IN  IF stars = {} THEN Len(toks) ELSE SetMin(stars) - 1

\* re.match of the translated pattern, "(?s:...)\Z": the leading fixed pieces,
\* then each interior "STAR fixed" as the atomic minimal match (?>.*?fixed),
\* the last one as ".*fixed" up to the end of the name.
RECURSIVE ReMatchFrom(_, _, _, _)
ReMatchFrom(toks, i, name, pos) ==
    IF i > Len(toks) THEN pos = Len(name) + 1
    ELSE IF toks[i].t = "star"
    THEN IF i = Len(toks) THEN TRUE
         ELSE LET e   == FixedEnd(toks, i + 1)
                  len == e - i
              IN  IF e = Len(toks)
                  THEN LET p == Len(name) - len + 1
                       IN  p >= pos /\ FixedAt(toks, i + 1, e, name, p)
                  ELSE LET cands == {p \in pos..(Len(name) + 1) :
                                        FixedAt(toks, i + 1, e, name, p)}
                       IN  IF cands = {} THEN FALSE
                           ELSE ReMatchFrom(toks, e + 1, name, SetMin(cands) + len)
    ELSE /\ pos <= Len(name)
         /\ TokMatch(toks[i], name[pos])
         /\ ReMatchFrom(toks, i + 1, name, pos + 1)

\* A plausible slip: re.search semantics for the start (the pattern may match
\* from any position of the name).
FnMatchCaseUnanchored(name, pat) ==
    \E s \in 1..(Len(name) + 1) :
        ReMatchFrom(Translate(pat), 1, SubSeq(name, s, Len(name)), 1)

FnMatchCase(name, pat) == ReMatchFrom(Translate(pat), 1, name, 1)

\* ------------------------------------------------------ get_current_branch
Unknown  == <<"u", "n", "k", "n", "o", "w", "n">>
Detached == <<"D", "E", "T", "A", "C", "H", "E", "D">>
HeadRef  == <<"H", "E", "A", "D">>

\* What "git rev-parse --abbrev-ref HEAD" answers: ok is FALSE when
\* subprocess.run raises (git missing, non-zero exit), out is its stdout.
GitFailed   == [ok |-> FALSE, out |-> <<>>]
GitSays(o)  == [ok |-> TRUE,  out |-> o]

\* A plausible slip: the detached answer is passed on as "HEAD".
GetCurrentBranchRaw(answer) ==
    IF ~answer.ok THEN Unknown ELSE Strip(answer.out)

GetCurrentBranch(answer) ==
    IF ~answer.ok THEN Unknown
    ELSE LET branch == Strip(answer.out)
         IN  IF branch # HeadRef THEN branch ELSE Detached

\* ------------------------------------------------------------- load_config
\* The config file: absent, present but unreadable, present but not JSON, or
\* JSON; JSON that is no object is kept apart (main() calls .get on it).
CfgAbsent     == [kind |-> "absent",     obj |-> EmptyDict]
CfgUnreadable == [kind |-> "unreadable", obj |-> EmptyDict]
CfgMalformed  == [kind |-> "malformed",  obj |-> EmptyDict]
CfgNonObject  == [kind |-> "nonobject",  obj |-> EmptyDict]
CfgObject(o)  == [kind |-> "object",     obj |-> o]

\* A plausible slip: a config that cannot be parsed falls back to defaults.
LoadConfigLenient(file) ==
    IF file.kind \in {"absent", "unreadable", "malformed"}
    THEN Ret(CfgObject(EmptyDict))
    ELSE Ret(file)

\* Returns the parsed document ({} for an absent file) or exits.
LoadConfig(file) ==
    CASE file.kind = "absent"                     -> Ret(CfgObject(EmptyDict))
      [] file.kind \in {"unreadable", "malformed"} -> Exit1
      [] OTHER                                    -> Ret(file)

\* ------------------------------------------------ matches_protected_branch
\* any(fnmatchcase(branch, p) for p in patterns): "true" at the first pattern
\* that matches, "TypeError" when a pattern that is no string is reached
\* first, "false" when the list is exhausted.
MatchStops(branch, patterns) ==
    {i \in 1..Len(patterns) :
        patterns[i].ty # "str" \/ FnMatchCase(branch, patterns[i].s)}

\* A plausible slip: all() for any().
MatchesProtectedBranchAll(branch, patterns) ==
    IF \E i \in 1..Len(patterns) : patterns[i].ty # "str" THEN "TypeError"
    ELSE IF \A i \in 1..Len(patterns) : FnMatchCase(branch, patterns[i].s)
    THEN "true" ELSE "false"

MatchesProtectedBranch(branch, patterns) ==
    LET stops == MatchStops(branch, patterns)
    IN  IF stops = {} THEN "false"
        ELSE IF patterns[SetMin(stops)].ty # "str" THEN "TypeError"
        ELSE "true"

DefaultProtected ==
    JList(<<JStr(<<"m", "a", "s", "t", "e", "r">>), JStr(<<"m", "a", "i", "n">>)>>)

\* ---------------------------------------- load_nyx_version, read_nyx_version
NyxAbsent     == [kind |-> "absent",    obj |-> EmptyDict]
NyxMalformed  == [kind |-> "malformed", obj |-> EmptyDict]
NyxNonObject  == [kind |-> "nonobject", obj |-> EmptyDict]
NyxObject(o)  == [kind |-> "object",    obj |-> o]

Dot == <<".">>

\* A plausible slip: a field is refused only when it is missing or null.
ReadNyxVersionNotNone(data) ==
    IF \/ ~TruthyNotNone(DictGet(data, "versionMajorNumber"))
       \/ ~TruthyNotNone(DictGet(data, "versionMinorNumber"))
       \/ ~TruthyNotNone(DictGet(data, "versionPatchNumber"))
    THEN Exit1
    ELSE Ret(PyStr(DictGet(data, "versionMajorNumber")) \o Dot
             \o PyStr(DictGet(data, "versionMinorNumber")) \o Dot
             \o PyStr(DictGet(data, "versionPatchNumber")))

ReadNyxVersion(data) ==
    IF \/ ~Truthy(DictGet(data, "versionMajorNumber"))
       \/ ~Truthy(DictGet(data, "versionMinorNumber"))
       \/ ~Truthy(DictGet(data, "versionPatchNumber"))
    THEN Exit1
    ELSE Ret(PyStr(DictGet(data, "versionMajorNumber")) \o Dot
             \o PyStr(DictGet(data, "versionMinorNumber")) \o Dot
             \o PyStr(DictGet(data, "versionPatchNumber")))

\* Absent: exit. Not JSON, or JSON that has no .get: the except clause exits.
LoadNyxVersion(file) ==
    CASE file.kind = "object" -> ReadNyxVersion(file.obj)
      [] OTHER                -> Exit1

\* ---------------------------------------------------------- get_pom_version
\* An element: its namespace ("maven" for the POM namespace URI, "none" for
\* no namespace), its tag, its text (JNull for None) and its children.
Elem(ns, tag, text, kids) == [ns |-> ns, tag |-> tag, text |-> text, kids |-> kids]

PomAbsent     == [kind |-> "absent",     root |-> Elem("none", "", JNull, <<>>)]
PomUnparsable == [kind |-> "unparsable", root |-> Elem("none", "", JNull, <<>>)]
PomXml(root)  == [kind |-> "xml",        root |-> root]

\* Element.iter(): the element and its descendants in document order.
RECURSIVE Iter(_)
Iter(e) == <<e>> \o ConcatAll([i \in 1..Len(e.kids) |-> Iter(e.kids[i])])

\* The children of e that are {POM namespace}tag, in order.
MavenChildren(e, tag) ==
    SelectSeq(e.kids, LAMBDA c : c.ns = "maven" /\ c.tag = tag)

\* root.find("m:version", namespaces)
FindRootVersion(root) == MavenChildren(root, "version")

\* tree.find(".//m:parent/m:version", namespaces): the version children of
\* the parent elements below the root, in document order.
FindParentVersion(root) ==
    LET parents == SelectSeq(Tail(Iter(root)),
                             LAMBDA c : c.ns = "maven" /\ c.tag = "parent")
    IN  ConcatAll([i \in 1..Len(parents) |-> MavenChildren(parents[i], "version")])

\* elem.text.strip(): None has no strip, and the except clause exits.
TextOf(elem) == IF elem.text.ty = "null" THEN Exit1 ELSE Ret(Strip(elem.text.s))

GetPomVersion(file) ==
    IF file.kind # "xml" THEN Exit1
    ELSE IF FindRootVersion(file.root) # <<>>
    THEN TextOf(Head(FindRootVersion(file.root)))
    ELSE IF FindParentVersion(file.root) # <<>>
    THEN TextOf(Head(FindParentVersion(file.root)))
    ELSE Exit1

\* ------------------------------------------------- validate_liquibase_files
SqlSuffix      == <<".sql">>
RollbackSuffix == <<"_rollback.sql">>

\* A directory is the set of its entries, each a name and a kind ("file" or
\* "dir"); Path.exists() is true of either kind.
DirEntry(name, kind) == [name |-> name, kind |-> kind]

PathExists(listing, name) == \E e \in listing : e.name = name

LogLine(lvl, msg, arg) == [lvl |-> lvl, msg |-> msg, arg |-> arg]

MissingFiles(version, listing) ==
    (IF PathExists(listing, version \o SqlSuffix) THEN <<>>
     ELSE <<version \o SqlSuffix>>)
    \o (IF PathExists(listing, version \o RollbackSuffix) THEN <<>>
        ELSE <<version \o RollbackSuffix>>)

\* Returns normally (ok) or logs and exits; log is what it reports.
ValidateLiquibaseFiles(version, listing) ==
    LET missing == MissingFiles(version, listing)
    IN  IF missing = <<>> THEN [ok |-> TRUE, log |-> <<>>]
        ELSE [ok  |-> FALSE,
              log |-> [i \in 1..Len(missing) |->
                          LogLine("ERROR", "Missing Liquibase file", missing[i])]
                      \o <<LogLine("ERROR", "Liquibase files missing for version",
                                   version)>>]

\* ------------------------------------------------ reference glob semantics
\* Glob matching where only '*' (any run of characters) and '?' (one
\* character) are special and every other pattern character is itself.
RECURSIVE GlobStarQuestion(_, _)
GlobStarQuestion(pat, name) ==
    IF pat = <<>> THEN name = <<>>
    ELSE CASE Head(pat) = "*" ->
                \/ GlobStarQuestion(Tail(pat), name)
                \/ name # <<>> /\ GlobStarQuestion(pat, Tail(name))
           [] Head(pat) = "?" ->
                name # <<>> /\ GlobStarQuestion(Tail(pat), Tail(name))
           [] OTHER ->
                /\ name # <<>>
                /\ Head(name) = Head(pat)
                /\ GlobStarQuestion(Tail(pat), Tail(name))

\* The same, with '[' opening a bracket expression when a ']' that leaves the
\* expression at least one member follows: "[seq]" is one character of seq,
\* "[!seq]" one character not in seq; an unclosed '[' is itself.
BracketBody(pat) == IF Len(pat) >= 2 /\ pat[2] = "!" THEN 3 ELSE 2

BracketClose(pat) == {j \in (BracketBody(pat) + 1)..Len(pat) : pat[j] = "]"}

RECURSIVE GlobBracket(_, _)
GlobBracket(pat, name) ==
    IF pat = <<>> THEN name = <<>>
    ELSE CASE Head(pat) = "*" ->
                \/ GlobBracket(Tail(pat), name)
                \/ name # <<>> /\ GlobBracket(pat, Tail(name))
           [] Head(pat) = "?" ->
                name # <<>> /\ GlobBracket(Tail(pat), Tail(name))
           [] Head(pat) = "[" /\ BracketClose(pat) # {} ->
                LET j    == SetMin(BracketClose(pat))
                    b    == BracketBody(pat)
                    seq  == {pat[k] : k \in b..(j - 1)}
                IN  /\ name # <<>>
                    /\ (Head(name) \in seq) # (b = 3)
                    /\ GlobBracket(SubSeq(pat, j + 1, Len(pat)), Tail(name))
           [] OTHER ->
                /\ name # <<>>
                /\ Head(name) = Head(pat)
                /\ GlobBracket(Tail(pat), Tail(name))

\* ------------------------------------------------------------ idle values
NoReads == [cfg |-> 0, git |-> 0, nyx |-> 0, pom |-> 0, lb |-> 0]

MatchIdle ==
    /\ mBranch = <<>>
    /\ mPat = <<>>
    /\ mIdx = 0
    /\ mResult = FALSE
    /\ mRef = FALSE
    /\ mRefB = FALSE
    /\ mPc = "idle"

UnitIdle ==
    /\ uIn = <<>>
    /\ uOut = <<>>
    /\ uPc = "idle"

MainIdle ==
    /\ git1 = GitFailed
    /\ git2 = GitFailed
    /\ config = CfgAbsent
    /\ current_branch = <<>>
    /\ decided_branch = <<>>
    /\ protected_branches = JNull
    /\ nyx_file = <<>>
    /\ pom_file = <<>>
    /\ lb_dir = <<>>
    /\ check_maven = JNull
    /\ check_liquibase = JNull
    /\ nyx_version = <<>>
    /\ pom_version = <<>>
    /\ log = <<>>
    /\ exitCode = -1
    /\ exitHow = "running"
    /\ reads = NoReads

EnvIdle ==
    /\ cfgFile = CfgAbsent
    /\ fs = [nyx |-> EmptyDict, pom |-> EmptyDict, lb |-> EmptyDict]

\* --------------------------------------------------- Branch Matcher harness
PatChars == {"m", "/", "*", "?", "[", "]"}
BranchChars == {"m", "M", "/"}

MatchInit ==
    /\ mBranch \in SeqsUpTo(BranchChars, MaxBranchLen)
    /\ mPat = <<>>
    /\ mIdx = 0
    /\ mResult = FALSE
    /\ mRef = FALSE
    /\ mRefB = FALSE
    /\ mPc = "iter"
    /\ UnitIdle
    /\ EnvIdle
    /\ pc = "idle"
    /\ MainIdle

\* any() draws the next pattern and stops at the first that matches.
MatchNextPattern ==
    /\ mPc = "iter"
    /\ mIdx < MaxPatterns
    /\ \E p \in SeqsUpTo(PatChars, MaxPatLen) :
         LET r == FnMatchCase(mBranch, p) IN
         /\ mPat' = IF r THEN p ELSE <<>>
         /\ mResult' = r
         /\ mRef' = (mRef \/ GlobStarQuestion(p, mBranch))
         /\ mRefB' = (mRefB \/ GlobBracket(p, mBranch))
         /\ mPc' = IF r THEN "done" ELSE "iter"
    /\ mIdx' = mIdx + 1
    /\ UNCHANGED <<mBranch, unitVars, envVars, mainVars>>

\* The list is exhausted: any() returns False.
MatchEndOfList ==
    /\ mPc = "iter"
    /\ mPc' = "done"
    /\ UNCHANGED <<mBranch, mPat, mIdx, mResult, mRef, mRefB>>
    /\ UNCHANGED <<unitVars, envVars, mainVars>>

MatchNext == MatchNextPattern \/ MatchEndOfList

SpecMatch == MatchInit /\ [][MatchNext]_vars

\* ---------------------------------------------------------------- main()
MainBranch == <<"m", "a", "i", "n">>
Newline == <<"\n">>

\* What the branch query may answer: a failure, a detached HEAD, a protected
\* branch, an unprotected branch (with the blanks strip() removes).
GitAnswers ==
    {GitFailed,
     GitSays(HeadRef \o Newline),
     GitSays(MainBranch \o Newline),
     GitSays(<<" ", "d", "e", "v">> \o Newline)}

\* A path is a string of one piece: the model never looks inside a path.
NyxDefaultPath == <<"nyx-state.json">>
PomDefaultPath == <<"pom.xml">>
LbDefaultDir   == <<"src/main/resources/db/changelog">>
NyxCustomPath  == <<"release/nyx.json">>
PomCustomPath  == <<"app/pom.xml">>
LbCustomDir    == <<"db/changelog">>

ProtectedChoices ==
    {JStr(MainBranch),
     JList(<<>>),
     JList(<<JStr(MainBranch)>>),
     JList(<<JStr(<<"m", "*">>)>>),
     JList(<<JStr(MainBranch), JInt(5)>>),
     JList(<<JInt(5), JStr(MainBranch)>>)}

PathSettings ==
    {EmptyDict,
     ("nyx_version_file" :> JStr(NyxCustomPath))
       @@ ("pom_file" :> JStr(PomCustomPath))
       @@ ("liquibase_dir" :> JStr(LbCustomDir))}

ConfigObjects ==
    {a @@ b @@ c @@ d :
        a \in Entry("protected_branches", ProtectedChoices),
        b \in Entry("check_maven", {JBool(TRUE), JBool(FALSE), JInt(1)}),
        c \in Entry("check_liquibase", {JBool(TRUE), JBool(FALSE), JStr(<<"y", "e", "s">>)}),
        d \in PathSettings}

ConfigFiles ==
    {CfgAbsent, CfgUnreadable, CfgMalformed, CfgNonObject}
    \cup {CfgObject(o) : o \in ConfigObjects}

V123 == <<"1", ".", "2", ".", "3">>
V124 == <<"1", ".", "2", ".", "4">>

NyxFields(major, minor, patch) ==
    ("versionMajorNumber" :> major) @@ ("versionMinorNumber" :> minor)
      @@ ("versionPatchNumber" :> patch)

PomWith(text) ==
    PomXml(Elem("maven", "project", JNull,
                <<Elem("maven", "artifactId", JStr(<<"a">>), <<>>),
                  Elem("maven", "version", JStr(text), <<>>)>>))

Listing(version, forward, rollback) ==
    {DirEntry(version \o SqlSuffix, k) : k \in forward}
    \cup {DirEntry(version \o RollbackSuffix, k) : k \in rollback}

\* The working tree: the release-state files, the manifests and the migration
\* directories by path.  A path that is not listed does not exist.
FsStates ==
    {[nyx |-> (NyxDefaultPath :> n)
                @@ (NyxCustomPath :> NyxObject(NyxFields(JInt(1), JInt(2), JInt(4)))),
      pom |-> (PomDefaultPath :> p) @@ (PomCustomPath :> PomWith(V124)),
      lb  |-> (LbDefaultDir :> d)
                @@ (LbCustomDir :> Listing(V124, {"file"}, {"file"}))] :
        n \in {NyxAbsent, NyxMalformed,
               NyxObject(("versionMajorNumber" :> JInt(1))
                         @@ ("versionMinorNumber" :> JInt(2))),
               NyxObject(NyxFields(JInt(1), JInt(2), JInt(3)))},
        p \in {PomAbsent, PomWith(<<" ">> \o V123 \o Newline), PomWith(V124)},
        d \in {Listing(V123, f, r) : f \in {{}, {"file"}},
                                       r \in {{}, {"file"}, {"dir"}}}}

NyxAt(path) == IF path \in DOMAIN fs.nyx THEN fs.nyx[path] ELSE NyxAbsent
PomAt(path) == IF path \in DOMAIN fs.pom THEN fs.pom[path] ELSE PomAbsent
LbAt(dir)   == IF dir \in DOMAIN fs.lb THEN fs.lb[dir] ELSE {}

Init ==
    /\ cfgFile \in ConfigFiles
    /\ fs \in FsStates
    /\ pc = "load_config"
    /\ MainIdle
    /\ MatchIdle
    /\ UnitIdle

\* The process ends: return 0 from main(), sys.exit(1), or an exception
\* nothing catches (the interpreter exits with status 1).
Terminate(code, how, lines) ==
    /\ pc' = "exited"
    /\ exitCode' = code
    /\ exitHow' = how
    /\ log' = log \o lines

Continue(next, lines) ==
    /\ pc' = next
    /\ log' = log \o lines
    /\ UNCHANGED <<exitCode, exitHow>>

\* isinstance(protected_branches, list)
IsList(x) == x.ty = "list"

\* isinstance(x, bool)
IsBool(x) == x.ty = "bool"

\* A plausible slip: only the first component is compared.
VersionsDifferMajorOnly(pom, nyx) == pom = <<>> \/ nyx = <<>> \/ Head(pom) # Head(nyx)

\* pom_version != nyx_version
VersionsDiffer(pom, nyx) == pom # nyx

\* is_protected_branch(config), given what its own branch query answered.
IsProtectedBranch(cfg, answer) ==
    MatchesProtectedBranch(
        GetCurrentBranch(answer),
        DictGetDefault(cfg.obj, "protected_branches", DefaultProtected).l)

\* config = load_config(config_path)
MainLoadConfig ==
    /\ pc = "load_config"
    /\ reads' = [reads EXCEPT !.cfg = IF cfgFile.kind = "absent" THEN @ ELSE @ + 1]
    /\ IF LoadConfig(cfgFile).ok
       THEN /\ config' = LoadConfig(cfgFile).v
            /\ Continue("query_branch",
                        IF cfgFile.kind = "absent"
                        THEN <<LogLine("WARNING", "Config file not found", <<>>),
                               LogLine("WARNING", "Using default configuration", <<>>)>>
                        ELSE <<>>)
       ELSE /\ config' = config
            /\ Terminate(1, "sys.exit", <<LogLine("ERROR", "Failed to load config", <<>>)>>)
    /\ UNCHANGED <<git1, git2, current_branch, decided_branch, protected_branches,
                   nyx_file, pom_file, lb_dir, check_maven, check_liquibase,
                   nyx_version, pom_version>>
    /\ UNCHANGED <<matchVars, unitVars, envVars>>

\* current_branch = get_current_branch(); logging.info(...)
MainQueryBranch ==
    /\ pc = "query_branch"
    /\ \E answer \in GitAnswers :
         /\ git1' = answer
         /\ current_branch' = GetCurrentBranch(answer)
         /\ Continue("get_protected",
                     <<LogLine("INFO", "Current branch", GetCurrentBranch(answer))>>)
    /\ reads' = [reads EXCEPT !.git = @ + 1]
    /\ UNCHANGED <<git2, config, decided_branch, protected_branches,
                   nyx_file, pom_file, lb_dir, check_maven, check_liquibase,
                   nyx_version, pom_version>>
    /\ UNCHANGED <<matchVars, unitVars, envVars>>

\* protected_branches = config.get(...); the isinstance check.
MainGetProtected ==
    /\ pc = "get_protected"
    /\ IF config.kind # "object"
       THEN /\ Terminate(1, "uncaught", <<>>)
            /\ UNCHANGED protected_branches
       ELSE LET value == DictGetDefault(config.obj, "protected_branches", DefaultProtected)
            IN  /\ protected_branches' = value
                /\ IF IsList(value)
                   THEN Continue("branch_check", <<>>)
                   ELSE Terminate(1, "sys.exit",
                                  <<LogLine("ERROR", "Protected branches must be a list of strings", <<>>)>>)
    /\ UNCHANGED <<git1, git2, config, current_branch, decided_branch,
                   nyx_file, pom_file, lb_dir, check_maven, check_liquibase,
                   nyx_version, pom_version, reads>>
    /\ UNCHANGED <<matchVars, unitVars, envVars>>

\* if not is_protected_branch(config): ... return 0
MainBranchCheck ==
    /\ pc = "branch_check"
    /\ \E answer \in GitAnswers :
         /\ git2' = answer
         /\ decided_branch' = GetCurrentBranch(answer)
         /\ CASE IsProtectedBranch(config, answer) = "TypeError" ->
                   Terminate(1, "uncaught", <<>>)
              [] IsProtectedBranch(config, answer) = "false" ->
                   Terminate(0, "return",
                             <<LogLine("INFO", "not in protected list - skipping checks",
                                       current_branch)>>)
              [] OTHER ->
                   Continue("read_settings",
                            <<LogLine("INFO", "Running checks on protected branch",
                                      current_branch)>>)
    /\ reads' = [reads EXCEPT !.git = @ + 1]
    /\ UNCHANGED <<git1, config, current_branch, protected_branches,
                   nyx_file, pom_file, lb_dir, check_maven, check_liquibase,
                   nyx_version, pom_version>>
    /\ UNCHANGED <<matchVars, unitVars, envVars>>

\* The paths and flags with their defaults; the isinstance(bool) check.
MainReadSettings ==
    /\ pc = "read_settings"
    /\ nyx_file' = DictGetDefault(config.obj, "nyx_version_file", JStr(NyxDefaultPath)).s
    /\ pom_file' = DictGetDefault(config.obj, "pom_file", JStr(PomDefaultPath)).s
    /\ lb_dir' = DictGetDefault(config.obj, "liquibase_dir", JStr(LbDefaultDir)).s
    /\ check_maven' = DictGetDefault(config.obj, "check_maven", JBool(TRUE))
    /\ check_liquibase' = DictGetDefault(config.obj, "check_liquibase", JBool(TRUE))
    /\ IF ~IsBool(check_maven') \/ ~IsBool(check_liquibase')
       THEN Terminate(1, "sys.exit",
                      <<LogLine("ERROR", "check_maven and check_liquibase must be booleans", <<>>)>>)
       ELSE Continue("load_nyx", <<>>)
    /\ UNCHANGED <<git1, git2, config, current_branch, decided_branch,
                   protected_branches, nyx_version, pom_version, reads>>
    /\ UNCHANGED <<matchVars, unitVars, envVars>>

\* nyx_version = load_nyx_version(nyx_file)
MainLoadNyx ==
    /\ pc = "load_nyx"
    /\ reads' = [reads EXCEPT !.nyx = IF NyxAt(nyx_file).kind = "absent" THEN @ ELSE @ + 1]
    /\ IF LoadNyxVersion(NyxAt(nyx_file)).ok
       THEN /\ nyx_version' = LoadNyxVersion(NyxAt(nyx_file)).v
            /\ Continue("check_maven",
                        <<LogLine("INFO", "Next version detected by Nyx", nyx_version')>>)
       ELSE /\ UNCHANGED nyx_version
            /\ Terminate(1, "sys.exit", <<LogLine("ERROR", "Nyx version", nyx_file)>>)
    /\ UNCHANGED <<git1, git2, config, current_branch, decided_branch,
                   protected_branches, nyx_file, pom_file, lb_dir, check_maven,
                   check_liquibase, pom_version>>
    /\ UNCHANGED <<matchVars, unitVars, envVars>>

\* if check_maven: pom_version = get_pom_version(pom_file); compare.
MainCheckMaven ==
    /\ pc = "check_maven"
    /\ IF check_maven.b
       THEN /\ reads' = [reads EXCEPT !.pom = IF PomAt(pom_file).kind = "absent"
                                              THEN @ ELSE @ + 1]
            /\ IF ~GetPomVersion(PomAt(pom_file)).ok
               THEN /\ UNCHANGED pom_version
                    /\ Terminate(1, "sys.exit", <<LogLine("ERROR", "pom.xml", pom_file)>>)
               ELSE /\ pom_version' = GetPomVersion(PomAt(pom_file)).v
                    /\ IF VersionsDiffer(pom_version', nyx_version)
                       THEN Terminate(1, "sys.exit",
                                      <<LogLine("ERROR", "Maven version != Nyx version",
                                                <<pom_version', nyx_version>>)>>)
                       ELSE Continue("check_liquibase",
                                     <<LogLine("INFO", "Maven version matches Nyx", <<>>)>>)
       ELSE /\ Continue("check_liquibase", <<>>)
            /\ UNCHANGED <<pom_version, reads>>
    /\ UNCHANGED <<git1, git2, config, current_branch, decided_branch,
                   protected_branches, nyx_file, pom_file, lb_dir, check_maven,
                   check_liquibase, nyx_version>>
    /\ UNCHANGED <<matchVars, unitVars, envVars>>

\* if check_liquibase: validate_liquibase_files(...); "All checks passed!"
MainCheckLiquibase ==
    /\ pc = "check_liquibase"
    /\ IF check_liquibase.b
       THEN /\ reads' = [reads EXCEPT !.lb = @ + 1]
            /\ LET r == ValidateLiquibaseFiles(nyx_version, LbAt(lb_dir))
               IN  IF r.ok
                   THEN Terminate(0, "return",
                                  <<LogLine("INFO", "Liquibase files present", <<>>),
                                    LogLine("INFO", "All checks passed!", <<>>)>>)
                   ELSE Terminate(1, "sys.exit", r.log)
       ELSE /\ Terminate(0, "return", <<LogLine("INFO", "All checks passed!", <<>>)>>)
            /\ UNCHANGED reads
    /\ UNCHANGED <<git1, git2, config, current_branch, decided_branch,
                   protected_branches, nyx_file, pom_file, lb_dir, check_maven,
                   check_liquibase, nyx_version, pom_version>>
    /\ UNCHANGED <<matchVars, unitVars, envVars>>

Next ==
    \/ MainLoadConfig
    \/ MainQueryBranch
    \/ MainGetProtected
    \/ MainBranchCheck
    \/ MainReadSettings
    \/ MainLoadNyx
    \/ MainCheckMaven
    \/ MainCheckLiquibase

Spec == Init /\ [][Next]_vars

\* ------------------------------------------- release-version reader harness
FieldValues ==
    {JNull, JStr(<<>>), JStr(<<"7">>), JBool(FALSE), JBool(TRUE)}
    \cup {JInt(n) : n \in 0..MaxNum}

NyxInputs ==
    {NyxAbsent, NyxMalformed, NyxNonObject}
    \cup {NyxObject(a @@ b @@ c) :
            a \in Entry("versionMajorNumber", FieldValues),
            b \in Entry("versionMinorNumber", FieldValues),
            c \in Entry("versionPatchNumber", FieldValues)}

HarnessInit(inputs) ==
    /\ uIn \in inputs
    /\ uOut = <<>>
    /\ uPc = "call"
    /\ MatchIdle
    /\ EnvIdle
    /\ pc = "idle"
    /\ MainIdle

NyxInit == HarnessInit(NyxInputs)

\* load_nyx_version(nyx_file)
NyxCall ==
    /\ uPc = "call"
    /\ uOut' = LoadNyxVersion(uIn)
    /\ uPc' = IF LoadNyxVersion(uIn).ok THEN "returned" ELSE "exited"
    /\ UNCHANGED <<uIn, matchVars, envVars, mainVars>>

SpecNyx == NyxInit /\ [][NyxCall]_vars

\* ---------------------------------------------- build-manifest reader harness
\* The children a manifest's root may have, all in the namespace ns: a version
\* (empty, plain, or with blanks around it), a parent with or without a
\* version, a dependency with a version, a profile holding a parent.
ChildChoices(ns) ==
    {Elem(ns, "version", t, <<>>) :
        t \in {JNull, JStr(<<"1">>), JStr(<<" ", "2", "\n">>)}}
    \cup {Elem(ns, "parent", JNull, k) :
            k \in {<<>>, <<Elem(ns, "version", JStr(<<"3">>), <<>>)>>}}
    \cup {Elem(ns, "dependency", JNull, <<Elem(ns, "version", JStr(<<"4">>), <<>>)>>)}
    \cup {Elem(ns, "profile", JNull,
               <<Elem(ns, "parent", JNull,
                      <<Elem(ns, "version", JStr(<<"\t", "5">>), <<>>)>>)>>)}

PomInputs ==
    {PomAbsent, PomUnparsable}
    \cup {PomXml(Elem(ns, "project", JNull, kids)) :
            ns \in {"maven", "none"},
            kids \in UNION {SeqsUpTo(ChildChoices(n), MaxChildren) : n \in {"maven", "none"}}}

PomInit == HarnessInit(PomInputs)

\* get_pom_version(pom_path)
PomCall ==
    /\ uPc = "call"
    /\ uOut' = GetPomVersion(uIn)
    /\ uPc' = IF GetPomVersion(uIn).ok THEN "returned" ELSE "exited"
    /\ UNCHANGED <<uIn, matchVars, envVars, mainVars>>

SpecPom == PomInit /\ [][PomCall]_vars

\* ------------------------------------------- file existence validator harness
LbInputs ==
    {[version |-> v,
      listing |-> Listing(V123, f1, r1) \cup Listing(V124, f2, r2)] :
        v \in {V123, V124},
        f1 \in {{}, {"file"}, {"dir"}}, r1 \in {{}, {"file"}, {"dir"}},
        f2 \in {{}, {"file"}, {"dir"}}, r2 \in {{}, {"file"}, {"dir"}}}

LbInit == HarnessInit(LbInputs)

\* validate_liquibase_files(version, lb_dir): the directory is only read.
LbCall ==
    /\ uPc = "call"
    /\ uOut' = ValidateLiquibaseFiles(uIn.version, uIn.listing)
    /\ uPc' = IF ValidateLiquibaseFiles(uIn.version, uIn.listing).ok
              THEN "returned" ELSE "exited"
    /\ UNCHANGED <<uIn, matchVars, envVars, mainVars>>

SpecLb == LbInit /\ [][LbCall]_vars

\* ------------------------------------------------- what the claims refer to
Contains(lines, msg) == \E i \in 1..Len(lines) : lines[i].msg = msg

IsBlank(ch) == ch \in {" ", "\n", "\t"}

\* r is out without its leading and trailing blanks.
TrimOf(out, r) ==
    IF \A i \in 1..Len(out) : IsBlank(out[i]) THEN r = <<>>
    ELSE \E a, b \in 1..Len(out) :
           /\ a <= b
           /\ r = SubSeq(out, a, b)
           /\ ~IsBlank(out[a]) /\ ~IsBlank(out[b])
           /\ \A i \in 1..Len(out) : (i < a \/ i > b) => IsBlank(out[i])

\* The settings a run works with, read off the config file itself.
ConfigLoads == cfgFile.kind \in {"absent", "object"}

Setting(key, default) == IF key \in DOMAIN cfgFile.obj THEN cfgFile.obj[key] ELSE default

ProtectedSetting ==
    Setting("protected_branches",
            JList(<<JStr(<<"m", "a", "s", "t", "e", "r">>), JStr(<<"m", "a", "i", "n">>)>>))

IsListOfStrings(x) ==
    x.ty = "list" /\ \A i \in 1..Len(x.l) : x.l[i].ty = "str"

\* Some protected pattern matches the branch (reference glob semantics).
SomePatternMatches(branch) ==
    /\ ProtectedSetting.ty = "list"
    /\ \E i \in 1..Len(ProtectedSetting.l) :
         /\ ProtectedSetting.l[i].ty = "str"
         /\ GlobBracket(ProtectedSetting.l[i].s, branch)

\* The branch query that is_protected_branch makes has answered.
BranchDecided == reads.git = 2

NoCheckRan ==
    /\ reads.nyx = 0 /\ reads.pom = 0 /\ reads.lb = 0
    /\ nyx_file = <<>> /\ pom_file = <<>> /\ lb_dir = <<>>
    /\ check_maven = JNull /\ check_liquibase = JNull
    /\ nyx_version = <<>> /\ pom_version = <<>>

\* The release version is derivable and every enabled check is satisfied by
\* the working tree.
ReleaseVersion ==
    LoadNyxVersion(NyxAt(Setting("nyx_version_file", JStr(<<"nyx-state.json">>)).s))

ManifestVersion ==
    GetPomVersion(PomAt(Setting("pom_file", JStr(<<"pom.xml">>)).s))

MigrationPairPresent ==
    LET dir == LbAt(Setting("liquibase_dir", JStr(<<"src/main/resources/db/changelog">>)).s)
    IN  /\ \E e \in dir : e.name = ReleaseVersion.v \o <<".sql">>
        /\ \E e \in dir : e.name = ReleaseVersion.v \o <<"_rollback.sql">>

EnabledChecksHold ==
    /\ ReleaseVersion.ok
    /\ Setting("check_maven", JBool(TRUE)) = JBool(TRUE)
         => ManifestVersion.ok /\ ManifestVersion.v = ReleaseVersion.v
    /\ Setting("check_liquibase", JBool(TRUE)) = JBool(TRUE) => MigrationPairPresent

C3_SkipUnprotected ==
    /\ reads.git < 2 => NoCheckRan
    /\ ( /\ ConfigLoads
         /\ IsListOfStrings(ProtectedSetting)
         /\ BranchDecided
         /\ ~SomePatternMatches(decided_branch) )
       => /\ pc = "exited" /\ exitCode = 0 /\ exitHow = "return"
          /\ Contains(log, "not in protected list - skipping checks")
          /\ NoCheckRan

\* A skip although the release-state file is absent, the migration files are
\* missing and check_maven is no boolean.
C3_Witness ==
    /\ pc = "exited" /\ exitCode = 0
    /\ decided_branch = <<"d", "e", "v">>
    /\ cfgFile.kind = "object"
    /\ "check_maven" \in DOMAIN cfgFile.obj /\ cfgFile.obj["check_maven"] = JInt(1)
    /\ "protected_branches" \in DOMAIN cfgFile.obj
    /\ cfgFile.obj["protected_branches"] = JList(<<JStr(<<"m", "*">>)>>)
    /\ fs.nyx[<<"nyx-state.json">>].kind = "absent"
    /\ fs.lb[<<"src/main/resources/db/changelog">>] = {}

\* ------------------------------------------------------------------ C4
Falsy(j) ==
    \/ j.ty = "null"
    \/ j.ty = "int" /\ j.n = 0
    \/ j.ty = "str" /\ j.s = <<>>
    \/ j.ty = "bool" /\ ~j.b

RECURSIVE DecimalValue(_)
DecimalValue(s) ==
    IF s = <<>> THEN 0
    ELSE 10 * DecimalValue(SubSeq(s, 1, Len(s) - 1))
         + (CHOOSE d \in 0..9 : Digits[d + 1] = s[Len(s)])

\* The text s is how the field value j is written: a number in decimal
\* without leading zeros, a string as it is, true as "True".
Denotes(s, j) ==
    CASE j.ty = "int" ->
           /\ s # <<>>
           /\ \A i \in 1..Len(s) : \E d \in 1..10 : Digits[d] = s[i]
           /\ (Len(s) > 1 => s[1] # "0")
           /\ DecimalValue(s) = j.n
      [] j.ty = "str"  -> s = j.s
      [] j.ty = "bool" -> j.b /\ s = <<"T", "r", "u", "e">>
      [] OTHER -> FALSE

NyxFieldNames == {"versionMajorNumber", "versionMinorNumber", "versionPatchNumber"}

NyxUnusable(file) ==
    \/ file.kind # "object"
    \/ \E k \in NyxFieldNames : k \notin DOMAIN file.obj \/ Falsy(file.obj[k])

\* C4: if the release-state file is absent, is not parseable, or any of the
\* three fields is missing, null, zero or otherwise falsy, the reader exits
\* with non-zero status and returns no version; otherwise it returns exactly
\* "{major}.{minor}.{patch}" built from the three field values.
C4_NyxReader ==
    uPc # "call" =>
        IF NyxUnusable(uIn)
        THEN uPc = "exited" /\ uOut.v = <<>>
        ELSE /\ uPc = "returned"
             /\ \E i, k \in 1..Len(uOut.v) :
                  /\ i < k
                  /\ uOut.v[i] = "." /\ uOut.v[k] = "."
                  /\ Denotes(SubSeq(uOut.v, 1, i - 1), uIn.obj["versionMajorNumber"])
                  /\ Denotes(SubSeq(uOut.v, i + 1, k - 1), uIn.obj["versionMinorNumber"])
                  /\ Denotes(SubSeq(uOut.v, k + 1, Len(uOut.v)), uIn.obj["versionPatchNumber"])

\* A version with a two-digit component is returned.
C4_Witness ==
    /\ uPc = "returned"
    /\ uIn.kind = "object"
    /\ uIn.obj["versionMajorNumber"] = JInt(10)
    /\ uOut.v = <<"1", "0", ".", "2", ".", "7">>

\* ------------------------------------------------------------------ C5
\* The version elements the claim speaks of, whatever their namespace.
RootVersions(root) == SelectSeq(root.kids, LAMBDA c : c.tag = "version")

ParentVersions(root) ==
    LET parents == SelectSeq(Tail(Iter(root)), LAMBDA c : c.tag = "parent")
    IN  ConcatAll([i \in 1..Len(parents) |-> RootVersions(parents[i])])

HasText(e) == e.text.ty = "str"

\* C5: for every parseable manifest, with or without the Maven namespace, the
\* reader returns the trimmed text of the version element directly under the
\* root when there is one, otherwise that of a version element under a parent
\* element; it exits only when the file is absent, unparsable or has neither.
\* (Nothing is asked here of a version element that has no text.)
C5_PomReader ==
    uPc # "call" =>
        IF uIn.kind # "xml" THEN uPc = "exited"
        ELSE IF RootVersions(uIn.root) # <<>>
        THEN HasText(Head(RootVersions(uIn.root))) =>
               /\ uPc = "returned"
               /\ TrimOf(Head(RootVersions(uIn.root)).text.s, uOut.v)
        ELSE IF ParentVersions(uIn.root) # <<>>
        THEN HasText(Head(ParentVersions(uIn.root))) =>
               /\ uPc = "returned"
               /\ TrimOf(Head(ParentVersions(uIn.root)).text.s, uOut.v)
        ELSE uPc = "exited"

\* ------------------------------------------------------------------ C6
RegularFile(listing, name) == [name |-> name, kind |-> "file"] \in listing

NotRegular(version, listing) ==
    SelectSeq(<<version \o <<".sql">>, version \o <<"_rollback.sql">>>>,
              LAMBDA n : ~RegularFile(listing, n))

\* C6: the validator returns normally, reporting nothing, iff both
\* {version}.sql and {version}_rollback.sql exist as regular files; otherwise
\* it reports one error per missing path, then one summary error, and exits.
C6_FilePair ==
    uPc # "call" =>
        IF NotRegular(uIn.version, uIn.listing) = <<>>
        THEN uPc = "returned" /\ uOut.log = <<>>
        ELSE /\ uPc = "exited"
             /\ Len(uOut.log) = Len(NotRegular(uIn.version, uIn.listing)) + 1
             /\ \A i \in 1..Len(NotRegular(uIn.version, uIn.listing)) :
                  /\ uOut.log[i].msg = "Missing Liquibase file"
                  /\ uOut.log[i].arg = NotRegular(uIn.version, uIn.listing)[i]
             /\ uOut.log[Len(uOut.log)].msg = "Liquibase files missing for version"

\* ------------------------------------------------------------------ C7
\* C7: with no config file the loader warns and returns the empty mapping, so
\* the run works with every default; with a config file that cannot be read or
\* parsed the process exits with status 1 before anything else happens, and
\* never reaches the skip outcome or exit 0.
C7_ConfigLoader ==
    /\ cfgFile.kind = "absent" =>
         /\ pc # "load_config" =>
              /\ config = [kind |-> "object", obj |-> EmptyDict]
              /\ Contains(log, "Config file not found")
              /\ reads.git >= 1 \/ pc = "query_branch"
         /\ pc \in {"branch_check", "read_settings", "load_nyx", "check_maven",
                    "check_liquibase"} \/ BranchDecided =>
              protected_branches =
                JList(<<JStr(<<"m", "a", "s", "t", "e", "r">>), JStr(<<"m", "a", "i", "n">>)>>)
         /\ pc \in {"load_nyx", "check_maven", "check_liquibase"} \/ reads.nyx + reads.lb > 0 =>
              /\ nyx_file = <<"nyx-state.json">>
              /\ pom_file = <<"pom.xml">>
              /\ lb_dir = <<"src/main/resources/db/changelog">>
              /\ check_maven = JBool(TRUE)
              /\ check_liquibase = JBool(TRUE)
    /\ cfgFile.kind \in {"unreadable", "malformed"} =>
         /\ pc \in {"load_config", "exited"}
         /\ config = CfgAbsent
         /\ pc = "exited" =>
              /\ exitCode = 1 /\ exitHow = "sys.exit"
              /\ reads.git = 0 /\ NoCheckRan
              /\ ~Contains(log, "not in protected list - skipping checks")

\* Without a config file a run on "main" passes every check on the default
\* paths.
C7_Witness ==
    /\ cfgFile.kind = "absent"
    /\ pc = "exited" /\ exitCode = 0
    /\ decided_branch = <<"m", "a", "i", "n">>
    /\ reads.nyx = 1 /\ reads.pom = 1 /\ reads.lb = 1

\* ------------------------------------------------------------------ C8
BranchFor(answer, branch) ==
    /\ ~answer.ok => branch = <<"u", "n", "k", "n", "o", "w", "n">>
    /\ answer.ok /\ TrimOf(answer.out, <<"H", "E", "A", "D">>) =>
         branch = <<"D", "E", "T", "A", "C", "H", "E", "D">>
    /\ answer.ok /\ ~TrimOf(answer.out, <<"H", "E", "A", "D">>) =>
         TrimOf(answer.out, branch)

SentinelAnswer(answer) ==
    ~answer.ok \/ TrimOf(answer.out, <<"H", "E", "A", "D">>)

\* C8: get_current_branch hands back "unknown" when the command fails,
\* "DETACHED" when it prints "HEAD", the trimmed output otherwise, and the run
\* goes on in each case; with the default protected_branches, a run in which
\* the query the matcher relies on fails or reports a detached HEAD ends in
\* the skip outcome with exit status 0 and runs no check.
C8_BranchSentinel ==
    /\ reads.git >= 1 => BranchFor(git1, current_branch)
    /\ reads.git = 1 => pc = "get_protected" \/ pc = "branch_check" \/ pc = "exited"
    /\ reads.git = 1 /\ pc = "exited" => ~IsListOfStrings(ProtectedSetting) \/ cfgFile.kind = "nonobject"
    /\ BranchDecided => BranchFor(git2, decided_branch)
    /\ ( /\ ConfigLoads
         /\ "protected_branches" \notin DOMAIN cfgFile.obj
         /\ BranchDecided
         /\ SentinelAnswer(git2) )
       => /\ pc = "exited" /\ exitCode = 0 /\ exitHow = "return"
          /\ Contains(log, "not in protected list - skipping checks")
          /\ NoCheckRan

\* A detached HEAD under the default patterns: the run skips.
C8_Witness ==
    /\ cfgFile.kind = "absent"
    /\ git1 = [ok |-> TRUE, out |-> <<"H", "E", "A", "D", "\n">>]
    /\ git2 = [ok |-> TRUE, out |-> <<"H", "E", "A", "D", "\n">>]
    /\ current_branch = <<"D", "E", "T", "A", "C", "H", "E", "D">>
    /\ decided_branch = <<"D", "E", "T", "A", "C", "H", "E", "D">>
    /\ pc = "exited" /\ exitCode = 0

\* ------------------------------------------------------------------ C9
\* C9: in a run the branch query is executed at most once, the config file,
\* the release-state file and the manifest are each read at most once, and so
\* the branch the run logs is the branch the matcher decided on.
C9_AtMostOnce ==
    /\ reads.git <= 1
    /\ reads.cfg <= 1 /\ reads.nyx <= 1 /\ reads.pom <= 1
    /\ pc = "exited" /\ Contains(log, "not in protected list - skipping checks") =>
         ~SomePatternMatches(current_branch)
    /\ Contains(log, "Running checks on protected branch") =>
         SomePatternMatches(current_branch)

\* ------------------------------------------------------------------ C10
\* C10: when protected_branches is not a list of strings (no list, or a list
\* holding a non-string anywhere), the run ends with non-zero status at the
\* branch step: it never skips, never runs a check and never exits 0.
C10_ProtectedTypeChecked ==
    ( /\ cfgFile.kind = "object"
      /\ ~IsListOfStrings(ProtectedSetting) )
    => /\ pc \notin {"read_settings", "load_nyx", "check_maven", "check_liquibase"}
       /\ NoCheckRan
       /\ pc = "exited" => exitCode # 0

\* ------------------------------------------------------------------ C2
\* C2 (as stated): matches_protected_branch(B, P) is true iff some pattern of
\* P matches the whole of B where '*' is any run of characters ('/' included),
\* '?' is one character and every other pattern character matches only itself,
\* case-sensitively; for the empty list it is false.
C2_StarQuestionOnly ==
    mPc = "done" => /\ mResult = mRef
                    /\ (mIdx = 0 => mResult = FALSE)

\* C2 (amended): the same, except that '[' followed by a closing ']' is a
\* bracket expression, "[seq]" matching one character of seq and "[!seq]" one
\* character not in seq; patterns without '[' behave as the claim states.
C2_GlobWithBrackets ==
    mPc = "done" => /\ mResult = mRefB
                    /\ (mIdx = 0 => mResult = FALSE)
                    /\ (mResult /\ "[" \notin {mPat[k] : k \in 1..Len(mPat)}
                          => GlobStarQuestion(mPat, mBranch))

\* The second pattern of the list matches through a '*' that spans a '/'.
C2_Witness ==
    /\ mPc = "done"
    /\ mResult
    /\ mIdx = 2
    /\ mPat = <<"m", "*">>
    /\ mBranch = <<"m", "/", "M">>

====
